---- MODULE Spec2Model ----
(***************************************************************************)
(* Model of the two command-line tools of 8bitdo_update:                   *)
(*   - 8bitdo_scraper.py : the enumeration sweep over Type values          *)
(*   - 8bitdo_updater.py : the interactive flash orchestrator              *)
(* Strings are sequences of one-character strings, so that strip(),        *)
(* lower(), int() and string comparison are computed, not assumed.         *)
(***************************************************************************)
EXTENDS Integers, Sequences, FiniteSets, Bags, TLC

\* ------------------------------------------------------------------ bounds
\* largest Type value the sweep's --max may take
MaxType == 1
\* largest --start value
MaxStart == 1
\* longest "list" array of one sweep response
MaxItems == 2
\* longest firmware list the API returns to the updater
MaxFw == 2
\* most devices in the 'Devices' array of fwupdmgr
MaxDevs == 2
\* most invalid inputs the user types at one prompt
MaxReprompt == 2

\* ------------------------------------------------------- program constants
\* fetch_with_retries(..., retries=2, ...)
Retries == 2
\* fetch_with_retries(..., wait=0.2), in milliseconds
WaitBase == 200
\* --sleep default 0.03 s, in milliseconds
SleepMs == 30
\* range(max(0, i-5), min(len(lines), i+10))
WindowBefore == 5
WindowAfter == 10

\* ------------------------------------------------------------------ strings
\* str.lower() on one character
LowerChar(c) ==
    CASE c = "A" -> "a"
      [] c = "B" -> "b"
      [] c = "D" -> "d"
      [] c = "I" -> "i"
      [] c = "N" -> "n"
      [] c = "O" -> "o"
      [] c = "Q" -> "q"
      [] c = "T" -> "t"
      [] c = "Y" -> "y"
      [] OTHER -> c

\* str.lower()
Lower(s) == [i \in 1..Len(s) |-> LowerChar(s[i])]

\* the characters str.strip() removes
IsSpace(c) == c = " "

RECURSIVE LStrip(_)
LStrip(s) == IF s # <<>> /\ IsSpace(Head(s)) THEN LStrip(Tail(s)) ELSE s

RECURSIVE RStrip(_)
RStrip(s) ==
    IF s # <<>> /\ IsSpace(s[Len(s)]) THEN RStrip(SubSeq(s, 1, Len(s) - 1)) ELSE s

\* str.strip()
Strip(s) == RStrip(LStrip(s))

\* code point of a character (Python compares strings by code point)
Ord(c) ==
    CASE c = " " -> 32
      [] c = "-" -> 45
      [] c = "0" -> 48
      [] c = "1" -> 49
      [] c = "2" -> 50
      [] c = "3" -> 51
      [] c = "4" -> 52
      [] c = "5" -> 53
      [] c = "6" -> 54
      [] c = "7" -> 55
      [] c = "8" -> 56
      [] c = "9" -> 57
      [] c = "A" -> 65
      [] c = "B" -> 66
      [] c = "D" -> 68
      [] c = "I" -> 73
      [] c = "N" -> 78
      [] c = "O" -> 79
      [] c = "Q" -> 81
      [] c = "T" -> 84
      [] c = "Y" -> 89
      [] c = "a" -> 97
      [] c = "b" -> 98
      [] c = "d" -> 100
      [] c = "i" -> 105
      [] c = "n" -> 110
      [] c = "o" -> 111
      [] c = "q" -> 113
      [] c = "t" -> 116
      [] c = "x" -> 120
      [] c = "y" -> 121
      [] OTHER -> 0

\* s1 < s2 for Python str
RECURSIVE StrLess(_, _)
StrLess(s1, s2) ==
    IF s2 = <<>> THEN FALSE
    ELSE IF s1 = <<>> THEN TRUE
    ELSE IF Ord(Head(s1)) # Ord(Head(s2)) THEN Ord(Head(s1)) < Ord(Head(s2))
    ELSE StrLess(Tail(s1), Tail(s2))

IsDigit(c) == c \in {"0", "1", "2", "3", "4", "5", "6", "7", "8", "9"}

DigitVal(c) == Ord(c) - 48

RECURSIVE DigitsVal(_)
DigitsVal(s) ==
    IF s = <<>> THEN 0 ELSE 10 * DigitsVal(SubSeq(s, 1, Len(s) - 1)) + DigitVal(s[Len(s)])

AllDigits(s) == s # <<>> /\ \A i \in 1..Len(s) : IsDigit(s[i])

\* int(str): surrounding whitespace stripped, an optional sign, then digits;
\* [ok |-> FALSE] stands for ValueError
ParseInt(s) ==
    LET b == Strip(s) IN
    IF b # <<>> /\ Head(b) = "-" /\ AllDigits(Tail(b))
      THEN [ok |-> TRUE, n |-> 0 - DigitsVal(Tail(b))]
    ELSE IF AllDigits(b)
      THEN [ok |-> TRUE, n |-> DigitsVal(b)]
    ELSE [ok |-> FALSE, n |-> 0]

\* `sub in s` for two strings
Contains(s, sub) ==
    \E i \in 0..(Len(s) - Len(sub)) : SubSeq(s, i + 1, i + Len(sub)) = sub

\* ------------------------------------------------------------- JSON values
\* a JSON member that is absent or null: dict.get() gives None
Absent == [k |-> "none", s |-> <<>>, n |-> 0]
JStr(s) == [k |-> "str", s |-> s, n |-> 0]
JInt(n) == [k |-> "int", s |-> <<>>, n |-> n]

\* one element of the response's "list" array
Item(name, typ) == [fileName |-> name, type |-> typ]

\* the list items the sweep is fed
SweepItems ==
    { Item(Absent, JInt(1)),
      Item(JStr(<<" ">>), JInt(1)),
      Item(JStr(<<"a">>), Absent),
      Item(JStr(<<"a">>), JInt(1)),
      Item(JStr(<<"a">>), JStr(<<"1">>)),
      Item(JStr(<<" ", "a">>), JInt(1)),
      Item(JStr(<<"A">>), JInt(1)),
      Item(JStr(<<"a">>), JInt(10)),
      Item(JStr(<<"B">>), JInt(2)),
      Item(JStr(<<"B">>), JStr(<<"x">>)),
      Item(Absent, JStr(<<"x">>)) }

\* the parsed bodies json.loads() can return to the sweep: null, {}, an object
\* without "list", an object with a "list" array of n items (the items are
\* drawn from SweepItems as the loop reaches them)
SweepBodies ==
    { [k |-> "null", n |-> 0],
      [k |-> "emptyobj", n |-> 0],
      [k |-> "nolist", n |-> 0] }
    \cup { [k |-> "obj", n |-> n] : n \in 0..MaxItems }

\* `not data`
Falsy(data) == data.k \in {"null", "emptyobj"}

\* --------------------------------------------------------------- variables
VARIABLES
    \* ---- 8bitdo_scraper.py
    s_pc,         \* "loop" | "items" | "done" | "crashed"
    args_start,   \* --start
    args_max,     \* --max
    t,            \* the loop variable of main
    attempt,      \* the loop variable of fetch_with_retries
    left,         \* items of data["list"] the inner loop has still to visit
    seen,         \* the set `seen`, as a bag (a set holds each element once)
    outFile,      \* the CSV file: [written, header, rows]
    s_exit,       \* process exit status, -1 while running
    s_exc,        \* the exception that ended the run, "" if none
    reqs,         \* requests issued so far for the current Type value
    waits,        \* backoff waits slept so far for the current Type value
    added,        \* pairs the current Type value has added to `seen`
    fin,          \* the Type value processed last: [t, reqs, waits, result, slept, added]
    offeredTwice, \* how an admitted pair met itself in `seen`: "sameType", "otherType"
    warned,       \* Type values with a "warn:" line on stderr
    last_item     \* on `item` of the response in hand: [k, new], new: the pairs it added

VARIABLES
    \* ---- 8bitdo_updater.py
    u_pc,               \* the prompt or call main is at
    selected_gamepad,   \* select_gamepad()'s result
    include_beta,       \* the answer to "Include beta versions?"
    apiData,            \* `data`, the API's answer in fetch_firmware_list
    firmware_list,      \* [k |-> "unset" | "none" | "list", l |-> entries]
    choice,             \* `choice` of select_gamepad, then of select_firmware: the stripped input
    selected_firmware,  \* [k |-> "unset" | "none" | "fw", fw |-> entry]
    firmware_file,      \* [k |-> "unset" | "none" | "name", name |-> file name]
    enumerated,         \* what fwupdmgr gave: [k, match] (match: some entry names the vendor)
    device_id,          \* [k |-> "unset" | "none" | "id", id |-> device id]
    response,           \* the normalised answer to "Proceed with firmware update?"
    success,            \* flash_firmware()'s result: "unset" | "true" | "false"
    after,              \* where main goes on after cleanup_firmware_file
    disk,               \* names of the files in the working directory
    printed,            \* the messages printed so far
    asked,              \* per prompt: how often it was issued
    httpGets,           \* download requests issued
    toolRuns,           \* per external tool: invocations
    u_exit,             \* process exit status, -1 while running
    u_exc,              \* the exception that left main uncaught, "" if none
    flash_result        \* `result` of flash_firmware: how the flashing tool ended

svars == <<s_pc, args_start, args_max, t, attempt, left, seen, outFile, s_exit, s_exc,
           reqs, waits, added, fin, offeredTwice, warned, last_item>>

uvars == <<u_pc, selected_gamepad, include_beta, apiData, firmware_list, selected_firmware,
           firmware_file, device_id, response, success, after, disk, printed, asked,
           httpGets, toolRuns, u_exit, choice, enumerated, u_exc, flash_result>>

vars == <<svars, uvars>>

Range(q) == {q[i] : i \in 1..Len(q)}

\* ------------------------------------------------------------ scraper: data
\* (mutant) a list append instead of a set insert
SeenAddAppend(s, p) == s (+) SetToBag({p})

\* seen.add(p): a set holds an element once
SeenAdd(s, p) == IF BagIn(p, s) THEN s ELSE s (+) SetToBag({p})

\* int(typ) of a JSON int or a JSON string; [ok |-> FALSE] is ValueError
IntOf(typ) == IF typ.k = "int" THEN [ok |-> TRUE, n |-> typ.n] ELSE ParseInt(typ.s)

\* name = (item.get("fileName") or "").strip()
NameOf(item) == IF item.fileName.k = "str" THEN Strip(item.fileName.s) ELSE <<>>

\* (mutant) the type is not looked at
AdmittedNameOnly(item) == NameOf(item) # <<>>

\* `if name and typ is not None`
Admitted(item) == NameOf(item) # <<>> /\ item.type.k # "none"

\* (name, int(typ))
PairOf(item) == <<NameOf(item), IntOf(item.type).n>>

\* (mutant) the key without .lower()
SortKeyCaseSensitive(p) == <<p[1], p[2]>>

\* key=lambda x: (x[0].lower(), x[1])
SortKey(p) == <<Lower(p[1]), p[2]>>

\* tuple comparison k1 < k2
KeyLess(k1, k2) == StrLess(k1[1], k2[1]) \/ (k1[1] = k2[1] /\ k1[2] < k2[2])

\* insert x behind every element whose key is not greater (stable)
RECURSIVE InsertSorted(_, _)
InsertSorted(q, x) ==
    IF q = <<>> THEN <<x>>
    ELSE IF KeyLess(SortKey(x), SortKey(Head(q))) THEN <<x>> \o q
    ELSE <<Head(q)>> \o InsertSorted(Tail(q), x)

\* sorted(iterable, key=SortKey): a stable sort
RECURSIVE Sorted(_)
Sorted(q) ==
    IF q = <<>> THEN <<>> ELSE InsertSorted(Sorted(SubSeq(q, 1, Len(q) - 1)), q[Len(q)])

\* the orders in which iterating `seen` can yield its elements
IterOrders(s) ==
    {q \in [1..BagCardinality(s) -> BagToSet(s)] :
        \A p \in BagToSet(s) : Cardinality({i \in DOMAIN q : q[i] = p}) = CopiesIn(p, s)}

\* (mutant) the exponent counted from the retry, not from the failed attempt
BackoffLate(a) == WaitBase * (2 ^ (a + 1))

\* wait * (2 ** attempt)
Backoff(a) == WaitBase * (2 ^ a)

CsvHeader == <<"fileName", "type">>

\* what the item carries: its fileName is absent, null or blank ("noname"),
\* its type is absent or null ("notype"), or it has both ("both")
Carries(item) ==
    IF item.fileName.k # "str" \/ Strip(item.fileName.s) = <<>> THEN "noname"
    ELSE IF item.type.k = "none" THEN "notype"
    ELSE "both"

\* no item of the response in hand has been visited
NoItem == [k |-> "", new |-> {}]

NoFin == [t |-> -1, reqs |-> 0, waits |-> <<>>, result |-> "", slept |-> 0, added |-> {}]

\* ------------------------------------------------------------ scraper: init
InitScraper ==
    /\ s_pc = "loop"
    /\ args_start \in 0..MaxStart
    /\ args_max \in 0..MaxType
    /\ t = args_start
    /\ attempt = 0
    /\ left = 0
    /\ seen = EmptyBag
    /\ outFile = [written |-> FALSE, header |-> <<>>, rows |-> <<>>]
    /\ s_exit = -1
    /\ s_exc = ""
    /\ reqs = 0
    /\ waits = <<>>
    /\ added = {}
    /\ fin = NoFin
    /\ offeredTwice = {}
    /\ warned = {}
    /\ last_item = NoItem

\* fetch_with_retries is about to call fetch(t, ...)
InLoop == s_pc = "loop" /\ t <= args_max

\* the record of the Type value just left
Fin(n, res, sl, add) ==
    [t |-> t, reqs |-> n, waits |-> waits, result |-> res, slept |-> sl, added |-> add]

\* (mutant) the attempt counter outlives the Type value
NextTypeKeepsAttempt ==
    /\ s_pc' = "loop"
    /\ t' = t + 1
    /\ attempt' = attempt
    /\ left' = 0
    /\ reqs' = 0
    /\ waits' = <<>>
    /\ added' = {}

\* the next iteration of `for t in range(args.start, args.max + 1)`
NextType ==
    /\ s_pc' = "loop"
    /\ t' = t + 1
    /\ attempt' = 0
    /\ left' = 0
    /\ reqs' = 0
    /\ waits' = <<>>
    /\ added' = {}

\* an uncaught exception leaves main: traceback, exit status 1
Raise(exc, n) ==
    /\ s_pc' = "crashed"
    /\ s_exc' = exc
    /\ s_exit' = 1
    /\ reqs' = n
    /\ fin' = Fin(n, "raised", 0, added)
    /\ UNCHANGED <<t, attempt, left, waits, added, seen, offeredTwice>>

\* fetch() raised URLError / HTTPError / TimeoutError / socket.timeout
FetchNetErr ==
    /\ InLoop
    /\ IF attempt = Retries
         THEN \* warn, return None; main: `if not data: continue`
              /\ warned' = warned \cup {t}
              /\ fin' = Fin(reqs + 1, "none", 0, {})
              /\ NextType
         ELSE \* time.sleep(wait * (2 ** attempt)), next attempt
              /\ waits' = Append(waits, Backoff(attempt))
              /\ attempt' = attempt + 1
              /\ reqs' = reqs + 1
              /\ UNCHANGED <<s_pc, warned, fin, t, left, added>>
    /\ last_item' = NoItem
    /\ UNCHANGED <<args_start, args_max, seen, outFile, s_exit, s_exc, offeredTwice>>
    /\ UNCHANGED uvars

\* json.loads(raw) raised JSONDecodeError, which fetch_with_retries does not catch
FetchBadJson ==
    /\ InLoop
    /\ Raise("JSONDecodeError", reqs + 1)
    /\ last_item' = NoItem
    /\ UNCHANGED <<args_start, args_max, outFile, warned>>
    /\ UNCHANGED uvars

\* time.sleep(args.sleep) at the end of the loop body, then the next Type value
EndOfBody(add) ==
    /\ fin' = Fin(reqs, "data", SleepMs, add)
    /\ NextType

\* fetch() returned parsed JSON to main
FetchOk ==
    /\ InLoop
    /\ \E data \in SweepBodies :
         IF Falsy(data)
           THEN \* `if not data: continue`
                /\ fin' = Fin(reqs + 1, "falsy", 0, {})
                /\ NextType
           ELSE IF data.n = 0
           THEN \* `data.get("list") or []` is empty
                /\ fin' = Fin(reqs + 1, "data", SleepMs, {})
                /\ NextType
           ELSE /\ s_pc' = "items"
                /\ left' = data.n
                /\ reqs' = reqs + 1
                /\ UNCHANGED <<t, attempt, waits, added, fin>>
    /\ last_item' = NoItem
    /\ UNCHANGED <<args_start, args_max, seen, outFile, s_exit, s_exc, offeredTwice,
                   warned>>
    /\ UNCHANGED uvars

\* how the item's pair, if admitted, is already in `seen`
Meets(item) ==
    IF Admitted(item) /\ BagIn(PairOf(item), seen)
      THEN (IF PairOf(item) \in added THEN {"sameType"} ELSE {"otherType"})
      ELSE {}

\* one pass of `for item in (data.get("list") or [])`; after the last item
\* the loop body ends
ProcessItem ==
    /\ s_pc = "items"
    /\ \E item \in SweepItems :
         IF Admitted(item) /\ ~IntOf(item.type).ok
           THEN /\ Raise("ValueError", reqs)
                /\ last_item' = [k |-> Carries(item), new |-> {}]
           ELSE LET s2 == IF Admitted(item) THEN SeenAdd(seen, PairOf(item)) ELSE seen
                    a2 == added \cup (BagToSet(s2) \ BagToSet(seen))
                IN  /\ seen' = s2
                    /\ last_item' = [k |-> Carries(item), new |-> BagToSet(s2) \ BagToSet(seen)]
                    /\ offeredTwice' = offeredTwice \cup Meets(item)
                    /\ IF left = 1
                         THEN EndOfBody(a2)
                         ELSE /\ left' = left - 1
                              /\ added' = a2
                              /\ UNCHANGED <<s_pc, t, attempt, reqs, waits, fin>>
                    /\ UNCHANGED <<s_exit, s_exc>>
    /\ UNCHANGED <<args_start, args_max, outFile, warned>>
    /\ UNCHANGED uvars

\* after the loop: sort, write the file, print the summary, return
WriteOutput ==
    /\ s_pc = "loop"
    /\ t > args_max
    /\ \E order \in IterOrders(seen) :
         outFile' = [written |-> TRUE, header |-> CsvHeader, rows |-> Sorted(order)]
    /\ s_pc' = "done"
    /\ s_exit' = 0
    /\ last_item' = NoItem
    /\ UNCHANGED <<args_start, args_max, t, attempt, left, seen, s_exc, reqs, waits,
                   added, fin, offeredTwice, warned>>
    /\ UNCHANGED uvars

NextScraper == FetchNetErr \/ FetchBadJson \/ FetchOk \/ ProcessItem \/ WriteOutput

\* Ctrl-C while main runs: `if __name__ == "__main__": main()` has no handler,
\* so the interpreter prints the traceback and ends the process, with status 1
\* or, killing itself with SIGINT, 130
InterruptScraper ==
    /\ s_pc \in {"loop", "items"}
    /\ s_pc' = "crashed"
    /\ s_exc' = "KeyboardInterrupt"
    /\ \E code \in {1, 130} : s_exit' = code
    /\ UNCHANGED <<args_start, args_max, t, attempt, left, seen, outFile, reqs, waits,
                   added, fin, offeredTwice, warned, last_item>>
    /\ UNCHANGED uvars

NextScraperInt == NextScraper \/ InterruptScraper

\* ------------------------------------------------------------ updater: data
\* GAMEPADS
GAMEPADS ==
    (<<"1">> :> [name |-> "Arcade Stick", type |-> 34]) @@
    (<<"2">> :> [name |-> "Arcade Stick Receiver", type |-> 35]) @@
    (<<"3">> :> [name |-> "F30 GamePad", type |-> 2]) @@
    (<<"4">> :> [name |-> "F30 Arcade Stick", type |-> 5]) @@
    (<<"5">> :> [name |-> "F30 Pro", type |-> 1]) @@
    (<<"6">> :> [name |-> "Lite GamePad", type |-> 28]) @@
    (<<"7">> :> [name |-> "M30", type |-> 23]) @@
    (<<"8">> :> [name |-> "N30 GamePad", type |-> 2]) @@
    (<<"9">> :> [name |-> "N30 NS GamePad", type |-> 18]) @@
    (<<"1", "0">> :> [name |-> "N30 Pro", type |-> 1]) @@
    (<<"1", "1">> :> [name |-> "N30 Pro 2", type |-> 13]) @@
    (<<"1", "2">> :> [name |-> "Pro 2", type |-> 33]) @@
    (<<"1", "3">> :> [name |-> "Pro 2 Wired", type |-> 37]) @@
    (<<"1", "4">> :> [name |-> "SF30 Pro", type |-> 9]) @@
    (<<"1", "5">> :> [name |-> "SN30 GamePad", type |-> 3]) @@
    (<<"1", "6">> :> [name |-> "SN30 Pro+", type |-> 25]) @@
    (<<"1", "7">> :> [name |-> "SN30 Pro", type |-> 9])

NoGamepad == [name |-> "", type |-> -1]

\* what the user may type at "Enter the number of your gamepad: "
GamepadInputs ==
    { <<" ", "3", " ">>, <<"1", "7">>, <<"0">>, <<"1", "8">>, <<"0", "3">>, <<"x">>, <<>> }

\* what the user may type at a (y/n) prompt
YesNoInputs == { <<"y">>, <<"Y">>, <<" ", "y", " ">>, <<"n">>, <<"y", "y">>, <<>> }

\* what the user may type at "Enter the number of the firmware to download"
FirmwareInputs ==
    { <<"q">>, <<"Q">>, <<" ", "q">>, <<"1">>, <<" ", "2", " ">>, <<"3">>, <<"4">>,
      <<"0">>, <<"-", "1">>, <<"x">>, <<"q", "1">>, <<>> }

\* one entry of the API's "list": its version and its server-relative path
\* (a sequence of path segments, or Absent)
Fw(v, path) == [version |-> v, filePathName |-> path]

FwEntries ==
    { Fw(1, JStr(<<"firmware", "fw1.dat">>)),
      Fw(2, JStr(<<"firmware", "fw2.dat">>)),
      Fw(3, Absent) }

\* the sequences of at most n elements of S
RECURSIVE SeqsUpTo(_, _)
SeqsUpTo(S, n) ==
    IF n = 0 THEN {<<>>}
    ELSE LET shorter == SeqsUpTo(S, n - 1) IN
         shorter \cup {Append(q, x) : q \in {r \in shorter : Len(r) = n - 1}, x \in S}

\* what requests.post(...) can give fetch_firmware_list: a RequestException,
\* or a JSON object with or without msgState and "list"
NoData == [k |-> "unset", msgState |-> -1, haslist |-> FALSE, list |-> <<>>]

ListResponses ==
    { [k |-> "error", msgState |-> -1, haslist |-> FALSE, list |-> <<>>],
      [k |-> "json", msgState |-> 0, haslist |-> TRUE, list |-> <<Fw(1, Absent)>>],
      [k |-> "json", msgState |-> -1, haslist |-> TRUE, list |-> <<>>],
      [k |-> "json", msgState |-> 1, haslist |-> FALSE, list |-> <<>>] }
    \cup { [k |-> "json", msgState |-> 1, haslist |-> TRUE, list |-> l] :
             l \in {q \in SeqsUpTo(FwEntries, MaxFw) :
                      \A i, j \in DOMAIN q : q[i] = q[j] => i = j} }

NoneList == [k |-> "none", l |-> <<>>]

\* `not x` for a value that is unset, None or a list
NotList(x) == x.k # "list" \/ x.l = <<>>

\* fetch_firmware_list's return value and message for an answer
FetchResult(d) ==
    IF d.k = "error"
      THEN [ret |-> NoneList, msg |-> {"Error fetching firmware list"}]
    ELSE IF d.msgState # 1
      THEN [ret |-> NoneList, msg |-> {"Error from API"}]
    ELSE [ret |-> [k |-> "list", l |-> IF d.haslist THEN d.list ELSE <<>>], msg |-> {}]

\* display_firmware_versions
DisplayFirmwareVersions(fl) ==
    IF NotList(fl)
      THEN [ret |-> NoneList, msg |-> {"No firmware versions found."}]
      ELSE [ret |-> fl, msg |-> {"Available firmware versions"}]

\* Path(file_path).name
PathName(path) == path[Len(path)]

\* one device of `fwupdmgr get-devices --json`
Dev(vendor, id) == [Vendor |-> vendor, DeviceId |-> id]

Devices ==
    { Dev(JStr(<<"8", "B", "i", "t", "D", "o">>), JStr(<<"i", "d", "1">>)),
      Dev(JStr(<<"x", "8", "b", "i", "t">>), JStr(<<"i", "d", "2">>)),
      Dev(JStr(<<"8", "B", "I", "T", "D", "O">>), Absent),
      Dev(JStr(<<"b", "i", "t", "d", "o">>), JStr(<<"i", "d", "3">>)),
      Dev(Absent, JStr(<<"i", "d", "4">>)) }

\* vendor = device.get('Vendor', '').lower();
\* '8bitdo' in vendor or '8bit' in vendor
VendorMatches(dev) ==
    LET vendor == Lower(IF dev.Vendor.k = "str" THEN dev.Vendor.s ELSE <<>>) IN
    Contains(vendor, <<"8", "b", "i", "t", "d", "o">>) \/ Contains(vendor, <<"8", "b", "i", "t">>)

\* some entry of the 'Devices' array names the vendor
NamesVendor(devs) == \E i \in DOMAIN devs : VendorMatches(devs[i])

\* (mutant) the first device, whatever its vendor
FindDeviceAnyVendor(devs) ==
    IF devs = <<>> THEN [found |-> FALSE, id |-> Absent]
    ELSE [found |-> TRUE, id |-> Head(devs).DeviceId]

\* the loop of get_gamepad_device_id: the DeviceId of the first matching device
RECURSIVE FindDevice(_)
FindDevice(devs) ==
    IF devs = <<>> THEN [found |-> FALSE, id |-> Absent]
    ELSE IF VendorMatches(Head(devs)) THEN [found |-> TRUE, id |-> Head(devs).DeviceId]
    ELSE FindDevice(Tail(devs))

\* one line of `fwupdmgr get-devices`: its text, and what follows 'Device ID:'
\* in it (Absent when the line has no 'Device ID:')
Line(text, id) == [text |-> text, devid |-> id]

Filler == Line(<<"x">>, Absent)
BrandLine == Line(<<"8", "B", "i", "t", "D", "o">>, Absent)
IdLine(id) == Line(<<"i", "d">>, JStr(id))

RECURSIVE Fillers(_)
Fillers(n) == IF n = 0 THEN <<>> ELSE <<Filler>> \o Fillers(n - 1)

\* the text outputs the fallback is fed: no brand line, a brand line without
\* an id line, an id line `gap` lines before or behind the brand line, an id
\* line with nothing behind the colon
TextOutputs ==
    { <<Filler>>, <<BrandLine>>, <<IdLine(<<"i", "d", "1">>), Filler>>,
      <<BrandLine, IdLine(<<>>), BrandLine, IdLine(<<"i", "d", "2">>)>> }
    \cup { <<IdLine(<<"i", "d", "1">>)>> \o Fillers(gap - 1) \o <<BrandLine>> :
             gap \in {1, WindowBefore, WindowBefore + 1} }
    \cup { <<BrandLine>> \o Fillers(gap - 1) \o <<IdLine(<<"i", "d", "1">>)>> :
             gap \in {1, WindowAfter - 1, WindowAfter} }

Max(a, b) == IF a > b THEN a ELSE b
Min(a, b) == IF a < b THEN a ELSE b

\* the inner loop of get_device_id_fallback for the brand line at index i
\* (0-based): the first 'Device ID:' line in range(max(0, i-5), min(len, i+10))
WindowId(lines, i) ==
    LET js == {j \in Max(0, i - WindowBefore)..(Min(Len(lines), i + WindowAfter) - 1) :
                  lines[j + 1].devid.k = "str"}
    IN  IF js = {} THEN Absent
        ELSE lines[(CHOOSE j \in js : \A j2 \in js : j <= j2) + 1].devid

\* the outer loop of get_device_id_fallback from line i on; device_id is kept
\* from one brand line to the next
RECURSIVE ScanLines(_, _, _)
ScanLines(lines, i, dev) ==
    IF i >= Len(lines) THEN Absent
    ELSE IF Contains(Lower(lines[i + 1].text), <<"8", "b", "i", "t", "d", "o">>)
      THEN LET w == WindowId(lines, i)
               d == IF w.k = "str" THEN [w EXCEPT !.s = Strip(w.s)] ELSE dev
           IN  IF d.k = "str" /\ d.s # <<>> THEN d ELSE ScanLines(lines, i + 1, d)
    ELSE ScanLines(lines, i + 1, dev)

\* some line of the text output names the vendor
TextNamesVendor(lines) ==
    \E i \in DOMAIN lines : Contains(Lower(lines[i].text), <<"8", "b", "i", "t", "d", "o">>)

\* what `fwupdmgr get-devices --json` can give: no such program, a non-zero
\* exit, output that is not JSON, JSON whose top-level value is an array
\* (devices.get raises AttributeError), or JSON with a 'Devices' array
DiscoverOutcomes ==
    { [k |-> "CalledProcessError", devs |-> <<>>], [k |-> "notjson", devs |-> <<>>],
      [k |-> "FileNotFoundError", devs |-> <<>>], [k |-> "jsonarray", devs |-> <<>>] }
    \cup { [k |-> "json", devs |-> l] : l \in SeqsUpTo(Devices, MaxDevs) }

\* what `fwupdmgr get-devices` can give the fallback
FallbackOutcomes ==
    { [k |-> "CalledProcessError", lines |-> <<>>],
      [k |-> "FileNotFoundError", lines |-> <<>>] }
    \cup { [k |-> "text", lines |-> l] : l \in TextOutputs }

\* a DeviceId as main sees it: None, or the string
AsId(j) == IF j.k = "str" THEN [k |-> "id", id |-> j.s] ELSE [k |-> "none", id |-> <<>>]

\* `not device_id`
NoDeviceId(d) == d.k # "id" \/ d.id = <<>>

\* get_device_id_fallback's return value
FallbackResult(fb) ==
    IF fb.k = "CalledProcessError" THEN AsId(Absent) ELSE AsId(ScanLines(fb.lines, 0, Absent))

\* (mutant) everything but 'n' lets main go on
AffirmativeUnlessNo(r) == r # <<"n">>

\* `response != 'y'` negated: the answer that lets main go on
Affirmative(r) == r = <<"y">>

\* (mutant) the cancel token compared without .lower()
SelectFirmwareOnCaseSensitive(list, inp) ==
    LET c == Strip(inp)
        r == ParseInt(c)
        idx == r.n - 1
    IN  IF c = <<"q">> THEN [k |-> "quit", fw |-> Fw(0, Absent)]
        ELSE IF ~r.ok THEN [k |-> "nan", fw |-> Fw(0, Absent)]
        ELSE IF 0 <= idx /\ idx < Len(list) THEN [k |-> "fw", fw |-> list[idx + 1]]
        ELSE [k |-> "invalid", fw |-> Fw(0, Absent)]

\* (mutant) the ValueError of int() is not caught in the loop: it ends the prompt
SelectFirmwareOnNanQuits(list, inp) ==
    LET c == Strip(inp)
        r == ParseInt(c)
        idx == r.n - 1
    IN  IF Lower(c) = <<"q">> \/ ~r.ok THEN [k |-> "quit", fw |-> Fw(0, Absent)]
        ELSE IF 0 <= idx /\ idx < Len(list) THEN [k |-> "fw", fw |-> list[idx + 1]]
        ELSE [k |-> "invalid", fw |-> Fw(0, Absent)]

\* (mutant) `if idx < len(firmware_list)`: a negative idx counts from the end
SelectFirmwareOnNoLowerBound(list, inp) ==
    LET c == Strip(inp)
        r == ParseInt(c)
        idx == r.n - 1
    IN  IF Lower(c) = <<"q">> THEN [k |-> "quit", fw |-> Fw(0, Absent)]
        ELSE IF ~r.ok THEN [k |-> "nan", fw |-> Fw(0, Absent)]
        ELSE IF 0 <= idx /\ idx < Len(list) THEN [k |-> "fw", fw |-> list[idx + 1]]
        ELSE IF idx < 0 /\ 0 - idx <= Len(list)
          THEN [k |-> "fw", fw |-> list[Len(list) + idx + 1]]
        ELSE [k |-> "invalid", fw |-> Fw(0, Absent)]

\* select_firmware for one input: "quit", "fw" (with the entry), "nan"
\* (ValueError) or "invalid" (index out of range)
SelectFirmwareOn(list, inp) ==
    LET c == Strip(inp)
        r == ParseInt(c)
        idx == r.n - 1
    IN  IF Lower(c) = <<"q">> THEN [k |-> "quit", fw |-> Fw(0, Absent)]
        ELSE IF ~r.ok THEN [k |-> "nan", fw |-> Fw(0, Absent)]
        ELSE IF 0 <= idx /\ idx < Len(list) THEN [k |-> "fw", fw |-> list[idx + 1]]
        ELSE [k |-> "invalid", fw |-> Fw(0, Absent)]

\* exit statuses the flashing tool is given here: success and two failures
FlashExitCodes == {0, 1, 2}

\* flash_firmware has not called the tool
NotFlashed == [k |-> "unset", returncode |-> -1]

\* how subprocess.run ends in flash_firmware: the tool exited with a status,
\* or sudo could not be started
FlashOutcomes ==
    { [k |-> "exited", returncode |-> c] : c \in FlashExitCodes }
    \cup { [k |-> "FileNotFoundError", returncode |-> -1] }

\* (mutant) the exit status is not looked at
FlashSucceededAlways(rc) == TRUE

\* `result.returncode == 0`
FlashSucceeded(rc) == rc = 0

PromptKinds == {"gamepad", "beta", "firmware", "enter", "confirm", "keep"}
Tools == {"fwupdmgr --version", "fwupdmgr get-devices --json", "fwupdmgr get-devices",
          "sudo fwupdtool install-blob"}

\* ------------------------------------------------------------ updater: init
InitUpdater ==
    /\ u_pc = "preflight"
    /\ selected_gamepad = NoGamepad
    /\ include_beta = FALSE
    /\ apiData = NoData
    /\ firmware_list = [k |-> "unset", l |-> <<>>]
    /\ choice = <<>>
    /\ selected_firmware = [k |-> "unset", fw |-> Fw(0, Absent)]
    /\ firmware_file = [k |-> "unset", name |-> ""]
    /\ enumerated = [k |-> "unset", match |-> FALSE]
    /\ device_id = [k |-> "unset", id |-> <<>>]
    /\ response = <<>>
    /\ success = "unset"
    /\ after = ""
    /\ disk = {}
    /\ printed = {}
    /\ asked = [p \in PromptKinds |-> 0]
    /\ httpGets = 0
    /\ toolRuns = [x \in Tools |-> 0]
    /\ u_exit = -1
    /\ u_exc = ""
    /\ flash_result = NotFlashed

\* ---------------------------------------------------------- updater: actions
\* sys.exit(code), or main returning (code 0)
Exit(code) == u_pc' = "exit" /\ u_exit' = code

Say(msgs) == printed' = printed \cup msgs

Ask(p) == asked' = [asked EXCEPT ![p] = @ + 1]

Run(tool) == toolRuns' = [toolRuns EXCEPT ![tool] = @ + 1]

\* subprocess.run(['fwupdmgr', '--version'], check=True)
Preflight ==
    /\ u_pc = "preflight"
    /\ Run("fwupdmgr --version")
    /\ \E out \in {"ok", "CalledProcessError", "FileNotFoundError"} :
         IF out = "ok"
           THEN /\ Say({"Available gamepads"})
                /\ u_pc' = "select_gamepad"
                /\ UNCHANGED u_exit
           ELSE /\ Say({"Error: fwupd is not installed or not in PATH."})
                /\ Exit(1)
    /\ UNCHANGED <<selected_gamepad, include_beta, apiData, firmware_list, selected_firmware,
                   firmware_file, device_id, response, success, after, disk, asked,
                   httpGets>>
    /\ UNCHANGED <<choice, enumerated, u_exc, flash_result>>
    /\ UNCHANGED svars

\* one pass of the loop of select_gamepad
SelectGamepad ==
    /\ u_pc = "select_gamepad"
    /\ Ask("gamepad")
    /\ \E inp \in GamepadInputs :
         LET c == Strip(inp) IN
         /\ choice' = c
         /\ IF c \in DOMAIN GAMEPADS
              THEN /\ selected_gamepad' = GAMEPADS[c]
                   /\ Say({"Selected"})
                   /\ u_pc' = "ask_beta"
              ELSE /\ asked["gamepad"] < MaxReprompt
                   /\ Say({"Invalid selection. Please try again."})
                   /\ UNCHANGED <<u_pc, selected_gamepad>>
    /\ UNCHANGED <<include_beta, apiData, firmware_list, selected_firmware, firmware_file,
                   device_id, response, success, after, disk, httpGets, toolRuns, u_exit>>
    /\ UNCHANGED <<enumerated, u_exc, flash_result>>
    /\ UNCHANGED svars

\* include_beta = input(...).strip().lower() == 'y'
AskBeta ==
    /\ u_pc = "ask_beta"
    /\ Ask("beta")
    /\ \E inp \in YesNoInputs : include_beta' = (Lower(Strip(inp)) = <<"y">>)
    /\ u_pc' = "fetch_list"
    /\ UNCHANGED <<selected_gamepad, apiData, firmware_list, selected_firmware, firmware_file,
                   device_id, response, success, after, disk, printed, httpGets, toolRuns,
                   u_exit>>
    /\ UNCHANGED <<choice, enumerated, u_exc, flash_result>>
    /\ UNCHANGED svars

\* fetch_firmware_list, `if not firmware_list`, display_firmware_versions
FetchFirmwareList ==
    /\ u_pc = "fetch_list"
    /\ \E d \in ListResponses :
         LET r == FetchResult(d) IN
         /\ apiData' = d
         /\ IF NotList(r.ret)
              THEN /\ firmware_list' = r.ret
                   /\ Say({"Fetching firmware list"} \cup r.msg
                          \cup {"Failed to fetch firmware list. Exiting."})
                   /\ Exit(1)
              ELSE /\ firmware_list' = DisplayFirmwareVersions(r.ret).ret
                   /\ Say({"Fetching firmware list"} \cup r.msg
                          \cup DisplayFirmwareVersions(r.ret).msg)
                   /\ u_pc' = "select_firmware"
                   /\ UNCHANGED u_exit
    /\ UNCHANGED <<selected_gamepad, include_beta, selected_firmware, firmware_file,
                   device_id, response, success, after, disk, asked, httpGets, toolRuns>>
    /\ UNCHANGED <<choice, enumerated, u_exc, flash_result>>
    /\ UNCHANGED svars

\* one pass of the loop of select_firmware, and `if not selected_firmware`
SelectFirmware ==
    /\ u_pc = "select_firmware"
    /\ Ask("firmware")
    /\ \E inp \in FirmwareInputs :
         LET r == SelectFirmwareOn(firmware_list.l, inp) IN
         /\ choice' = Strip(inp)
         /\ CASE r.k = "quit" ->
                   /\ selected_firmware' = [k |-> "none", fw |-> r.fw]
                   /\ Say({"Exiting."})
                   /\ Exit(0)
              [] r.k = "fw" ->
                   /\ selected_firmware' = r
                   /\ u_pc' = "download"
                   /\ UNCHANGED <<printed, u_exit>>
              [] r.k = "nan" ->
                   /\ asked["firmware"] < MaxReprompt
                   /\ Say({"Please enter a valid number."})
                   /\ UNCHANGED <<u_pc, selected_firmware, u_exit>>
              [] r.k = "invalid" ->
                   /\ asked["firmware"] < MaxReprompt
                   /\ Say({"Invalid selection. Please try again."})
                   /\ UNCHANGED <<u_pc, selected_firmware, u_exit>>
    /\ UNCHANGED <<selected_gamepad, include_beta, apiData, firmware_list, firmware_file,
                   device_id, response, success, after, disk, httpGets, toolRuns>>
    /\ UNCHANGED <<enumerated, u_exc, flash_result>>
    /\ UNCHANGED svars

\* download_firmware, `if not firmware_file`
DownloadFirmware ==
    /\ u_pc = "download"
    /\ LET file_path == selected_firmware.fw.filePathName IN
       IF file_path.k # "str" \/ file_path.s = <<>>
         THEN /\ firmware_file' = [k |-> "none", name |-> ""]
              /\ Say({"Error: No file path found in firmware data",
                      "Failed to download firmware. Exiting."})
              /\ Exit(1)
              /\ UNCHANGED <<httpGets, disk>>
         ELSE /\ httpGets' = httpGets + 1
              /\ \E out \in {"ok", "RequestException"} :
                   IF out = "ok"
                     THEN /\ disk' = disk \cup {PathName(file_path.s)}
                          /\ firmware_file' = [k |-> "name", name |-> PathName(file_path.s)]
                          /\ Say({"Downloading firmware", "Firmware downloaded successfully"})
                          /\ u_pc' = "instructions"
                          /\ UNCHANGED u_exit
                     ELSE /\ firmware_file' = [k |-> "none", name |-> ""]
                          /\ Say({"Downloading firmware", "Error downloading firmware",
                                  "Failed to download firmware. Exiting."})
                          /\ Exit(1)
                          /\ UNCHANGED disk
    /\ UNCHANGED <<selected_gamepad, include_beta, apiData, firmware_list, selected_firmware,
                   device_id, response, success, after, asked, toolRuns>>
    /\ UNCHANGED <<choice, enumerated, u_exc, flash_result>>
    /\ UNCHANGED svars

\* print_instructions: the text, then input()
PrintInstructions ==
    /\ u_pc = "instructions"
    /\ Ask("enter")
    /\ Say({"INSTRUCTIONS"})
    /\ u_pc' = "discover"
    /\ UNCHANGED <<selected_gamepad, include_beta, apiData, firmware_list, selected_firmware,
                   firmware_file, device_id, response, success, after, disk, httpGets,
                   toolRuns, u_exit>>
    /\ UNCHANGED <<choice, enumerated, u_exc, flash_result>>
    /\ UNCHANGED svars

\* an exception no except clause of get_gamepad_device_id, of
\* get_device_id_fallback or of the __main__ guard names: traceback, status 1
Uncaught(exc, msgs) ==
    /\ u_pc' = "crashed"
    /\ u_exc' = exc
    /\ u_exit' = 1
    /\ Say(msgs \cup {"Traceback (most recent call last)"})
    /\ UNCHANGED <<device_id, after>>

\* (mutant) a found device is flashed without the confirmation prompt
AfterDiscoverySkipsConfirm(d, msgs) ==
    /\ device_id' = d
    /\ UNCHANGED <<u_exit, u_exc>>
    /\ IF NoDeviceId(d)
         THEN /\ Say(msgs \cup {"Couldn't find your gamepad."})
              /\ u_pc' = "cleanup"
              /\ after' = "exit1"
         ELSE /\ Say(msgs)
              /\ u_pc' = "flash"
              /\ UNCHANGED after

\* main after get_gamepad_device_id returned d
AfterDiscovery(d, msgs) ==
    /\ device_id' = d
    /\ UNCHANGED <<u_exit, u_exc>>
    /\ IF NoDeviceId(d)
         THEN /\ Say(msgs \cup {"Couldn't find your gamepad."})
              /\ u_pc' = "cleanup"
              /\ after' = "exit1"
         ELSE /\ Say(msgs)
              /\ u_pc' = "confirm"
              /\ UNCHANGED after

\* get_gamepad_device_id (with get_device_id_fallback), `if not device_id`
GetGamepadDeviceId ==
    /\ u_pc = "discover"
    /\ \E out \in DiscoverOutcomes :
         CASE out.k = "CalledProcessError" ->
                /\ Run("fwupdmgr get-devices --json")
                /\ enumerated' = [k |-> "CalledProcessError", match |-> FALSE]
                /\ AfterDiscovery(AsId(Absent), {"Error running fwupdmgr"})
           [] out.k = "FileNotFoundError" ->
                /\ Run("fwupdmgr get-devices --json")
                /\ enumerated' = [k |-> "FileNotFoundError", match |-> FALSE]
                /\ Uncaught("FileNotFoundError", {})
           [] out.k = "jsonarray" ->
                /\ Run("fwupdmgr get-devices --json")
                /\ enumerated' = [k |-> "jsonarray", match |-> FALSE]
                /\ Uncaught("AttributeError", {})
           [] out.k = "json" ->
                /\ Run("fwupdmgr get-devices --json")
                /\ enumerated' = [k |-> "json", match |-> NamesVendor(out.devs)]
                /\ LET f == FindDevice(out.devs) IN
                   IF f.found
                     THEN AfterDiscovery(AsId(f.id), {"Found"})
                     ELSE AfterDiscovery(AsId(Absent), {"No 8BitDo gamepad found."})
           [] out.k = "notjson" ->
                /\ toolRuns' = [toolRuns EXCEPT !["fwupdmgr get-devices --json"] = @ + 1,
                                                !["fwupdmgr get-devices"] = @ + 1]
                /\ \E fb \in FallbackOutcomes :
                     LET d == FallbackResult(fb) IN
                     /\ enumerated' = [k |-> fb.k, match |-> TextNamesVendor(fb.lines)]
                     /\ IF fb.k = "FileNotFoundError"
                          THEN Uncaught("FileNotFoundError", {"Error parsing fwupdmgr output."})
                          ELSE AfterDiscovery(d, {"Error parsing fwupdmgr output."}
                                   \cup (IF NoDeviceId(d) THEN {} ELSE {"Found device ID"}))
    /\ UNCHANGED <<selected_gamepad, include_beta, apiData, firmware_list, selected_firmware,
                   firmware_file, response, success, disk, asked, httpGets>>
    /\ UNCHANGED <<choice, flash_result>>
    /\ UNCHANGED svars

\* "Proceed with firmware update? (y/n): "
ConfirmFlash ==
    /\ u_pc = "confirm"
    /\ Ask("confirm")
    /\ \E inp \in YesNoInputs :
         /\ response' = Lower(Strip(inp))
         /\ IF Affirmative(response')
              THEN /\ u_pc' = "flash"
                   /\ UNCHANGED <<printed, after>>
              ELSE /\ Say({"Update cancelled."})
                   /\ u_pc' = "cleanup"
                   /\ after' = "exit0"
    /\ UNCHANGED <<selected_gamepad, include_beta, apiData, firmware_list, selected_firmware,
                   firmware_file, device_id, success, disk, httpGets, toolRuns, u_exit>>
    /\ UNCHANGED <<choice, enumerated, u_exc, flash_result>>
    /\ UNCHANGED svars

\* flash_firmware: sudo fwupdtool install-blob <file> <device id>
FlashFirmware ==
    /\ u_pc = "flash"
    /\ Run("sudo fwupdtool install-blob")
    /\ \E out \in FlashOutcomes :
         /\ flash_result' = out
         /\ IF out.k = "FileNotFoundError"
              THEN success' = "false" /\ Say({"Error: fwupdtool not found."})
              ELSE IF FlashSucceeded(out.returncode)
              THEN success' = "true" /\ Say({"Firmware flashed successfully!"})
              ELSE success' = "false" /\ Say({"Error flashing firmware"})
    /\ u_pc' = "cleanup"
    /\ after' = "flashed"
    /\ UNCHANGED <<selected_gamepad, include_beta, apiData, firmware_list, selected_firmware,
                   firmware_file, device_id, response, disk, asked, httpGets, u_exit>>
    /\ UNCHANGED <<choice, enumerated, u_exc>>
    /\ UNCHANGED svars

\* (mutant) every path behind the cleanup ends like a success
ExitCodeAfterAlwaysZero(aft, succ) == 0

\* the exit status main ends with behind cleanup_firmware_file
ExitCodeAfter(aft, succ) ==
    CASE aft = "exit1" -> 1
      [] aft = "exit0" -> 0
      [] OTHER -> IF succ = "true" THEN 0 ELSE 1

\* cleanup_firmware_file, then what follows the call in main
CleanupFirmwareFile ==
    /\ u_pc = "cleanup"
    /\ Ask("keep")
    /\ \E inp \in YesNoInputs, rm \in {"ok", "OSError"} :
         LET keep == Lower(Strip(inp)) = <<"y">>
             m1 == IF keep THEN {}
                   ELSE IF rm = "ok" THEN {"Removed"} ELSE {"Error removing file"}
             m2 == IF after # "flashed" THEN {}
                   ELSE IF success = "true" THEN {"Update completed successfully!"}
                   ELSE {"Update failed."}
         IN  /\ disk' = IF ~keep /\ rm = "ok" THEN disk \ {firmware_file.name} ELSE disk
             /\ Say(m1 \cup m2)
    /\ Exit(ExitCodeAfter(after, success))
    /\ UNCHANGED <<selected_gamepad, include_beta, apiData, firmware_list, selected_firmware,
                   firmware_file, device_id, response, success, after, httpGets, toolRuns>>
    /\ UNCHANGED <<choice, enumerated, u_exc, flash_result>>
    /\ UNCHANGED svars

\* Ctrl-C while main runs: `except KeyboardInterrupt:` of the __main__ guard
InterruptUpdater ==
    /\ u_pc \notin {"exit", "crashed"}
    /\ Say({"Operation cancelled by user."})
    /\ Exit(0)
    /\ UNCHANGED <<selected_gamepad, include_beta, apiData, firmware_list, selected_firmware,
                   firmware_file, device_id, response, success, after, disk, asked,
                   httpGets, toolRuns>>
    /\ UNCHANGED <<choice, enumerated, u_exc, flash_result>>
    /\ UNCHANGED svars

NextUpdater ==
    \/ Preflight
    \/ SelectGamepad
    \/ AskBeta
    \/ FetchFirmwareList
    \/ SelectFirmware
    \/ DownloadFirmware
    \/ PrintInstructions
    \/ GetGamepadDeviceId
    \/ ConfirmFlash
    \/ FlashFirmware
    \/ CleanupFirmwareFile

\* the stage of spec 4.2 that main is in at pc; 11: the process is gone
Stage(pc) ==
    CASE pc = "preflight" -> 1
      [] pc = "select_gamepad" -> 2
      [] pc \in {"ask_beta", "fetch_list"} -> 3
      [] pc = "select_firmware" -> 4
      [] pc = "download" -> 5
      [] pc = "instructions" -> 6
      [] pc = "discover" -> 7
      [] pc = "confirm" -> 8
      [] pc = "flash" -> 9
      [] pc = "cleanup" -> 10
      [] OTHER -> 11

\* ---------------------------------------------------------- specifications
\* the sweep, the updater not started
Init == InitScraper /\ InitUpdater

SpecScraper == Init /\ [][NextScraper]_vars

\* the updater, the sweep not started
InitU == InitScraper /\ args_start = 0 /\ args_max = 0 /\ InitUpdater

SpecUpdater == InitU /\ [][NextUpdater]_vars

\* the same runs, with an interrupt possible at every point
NextUpdaterInt == NextUpdater \/ InterruptUpdater

SpecScraperInt == Init /\ [][NextScraperInt]_vars

SpecUpdaterInt == InitU /\ [][NextUpdaterInt]_vars

\* ===================================================== claims: the scraper
SweepEnded == s_pc \in {"done", "crashed"}

\* C1: for any non-empty range the sweep ends with the output file written,
\* and a Type value whose retries were all used up adds no pair and is
\* followed by the next Type value.
C1_SweepAlwaysWritesOutput ==
    /\ (SweepEnded /\ args_start <= args_max) => outFile.written
    /\ fin.result = "none" => (fin.added = {} /\ s_pc # "crashed" /\ t = fin.t + 1)

\* C7: a pair offered to the accumulator more than once (by two Type values
\* or twice in one response) has exactly one row; no pair has two rows.
C7_NoDuplicateRows ==
    outFile.written =>
        /\ \A i, j \in DOMAIN outFile.rows : outFile.rows[i] = outFile.rows[j] => i = j
        /\ \A p \in BagToSet(seen) :
             Cardinality({i \in DOMAIN outFile.rows : outFile.rows[i] = p}) = 1

C7_Witness ==
    /\ outFile.written
    /\ offeredTwice = {"sameType", "otherType"}
    /\ Len(outFile.rows) >= 2

\* C8: consecutive rows r1, r2 satisfy
\* (lower(r1.fileName), r1.type) <= (lower(r2.fileName), r2.type).
C8_RowLeq(r1, r2) ==
    \/ StrLess(Lower(r1[1]), Lower(r2[1]))
    \/ (Lower(r1[1]) = Lower(r2[1]) /\ r1[2] <= r2[2])

C8_RowsSorted ==
    outFile.written =>
        /\ outFile.header = <<"fileName", "type">>
        /\ \A i \in 1..(Len(outFile.rows) - 1) :
             C8_RowLeq(outFile.rows[i], outFile.rows[i + 1])

C8_Witness ==
    /\ outFile.written
    /\ Len(outFile.rows) = 4
    /\ outFile.rows[3] = << <<"a">>, 10 >>
    /\ outFile.rows[4] = << <<"B">>, 2 >>

\* C9: the k-th backoff wait of a Type value is wait_base * 2^(k-1); a Type
\* value gets at most retries + 1 requests and at most retries waits, so no
\* wait follows the last failed attempt.
C9_WaitsOk(w, n) ==
    /\ \A k \in 1..Len(w) : w[k] = WaitBase * (2 ^ (k - 1))
    /\ Len(w) <= Retries
    /\ n <= Retries + 1

C9_Backoff ==
    /\ C9_WaitsOk(waits, reqs)
    /\ C9_WaitsOk(fin.waits, fin.reqs)
    /\ fin.result = "none" => (fin.reqs = Retries + 1 /\ Len(fin.waits) = Retries)
    /\ (s_pc = "loop" /\ attempt > 0) => Len(waits) = attempt

C9_Witness == fin.result = "none" /\ fin.waits = <<200, 400>> /\ Len(waits) = 1

\* C10: a response body that is not valid JSON does not crash the sweep: no
\* run is ended by the JSON decoding error.
C10_InvalidJsonDoesNotCrash == ~(s_pc = "crashed" /\ s_exc = "JSONDecodeError")

\* ===================================================== claims: the updater
FlashRuns == toolRuns["sudo fwupdtool install-blob"]

UpdaterEnded == u_pc = "exit"

\* C2: the flashing tool runs only after the answer 'y' (after strip and
\* lower) at "Proceed with firmware update?"; after any other answer it never
\* runs and the run ends with exit status 0.
C2_FlashOnlyAfterYes ==
    /\ (FlashRuns > 0 \/ u_pc = "flash") => (asked["confirm"] = 1 /\ response = <<"y">>)
    /\ (asked["confirm"] > 0 /\ response # <<"y">>) =>
          /\ FlashRuns = 0
          /\ u_pc \in {"cleanup", "exit"}
          /\ "Update cancelled." \in printed
          /\ UpdaterEnded => u_exit = 0

C2_Witness == UpdaterEnded /\ FlashRuns = 1 /\ response = <<"y">> /\ asked["confirm"] = 1

\* C3: when the enumeration output names no vendor entry, "no device found"
\* is reported, the retain question is asked, the run ends with exit status 1
\* and the flashing tool never runs.
C3_NoDeviceFound ==
    (enumerated.k \in {"json", "text"} /\ ~enumerated.match) =>
        /\ "Couldn't find your gamepad." \in printed
        /\ enumerated.k = "json" => "No 8BitDo gamepad found." \in printed
        /\ device_id.k = "none"
        /\ u_pc \in {"cleanup", "exit"}
        /\ asked["confirm"] = 0
        /\ FlashRuns = 0
        /\ UpdaterEnded => (asked["keep"] = 1 /\ u_exit = 1)

C3_Witness ==
    /\ UpdaterEnded
    /\ enumerated = [k |-> "json", match |-> FALSE]
    /\ toolRuns["fwupdmgr get-devices --json"] = 1
    /\ asked["keep"] = 1

\* C4: when the endpoint returns an empty "list", the fetch stage reports
\* "no firmware found" and the run ends without a download request and
\* without a local file.
C4_EmptyListReported ==
    (apiData.k = "json" /\ apiData.haslist /\ apiData.list = <<>>) =>
        /\ "No firmware versions found." \in printed
        /\ UpdaterEnded
        /\ httpGets = 0
        /\ disk = {}

\* C5: after the cancel token ('q', any case) at the firmware prompt the run
\* has ended with exit status 0, without download, discovery or flash.
C5_CancelAtSelection ==
    (asked["firmware"] > 0 /\ Lower(choice) = <<"q">>) =>
        /\ UpdaterEnded
        /\ u_exit = 0
        /\ httpGets = 0
        /\ disk = {}
        /\ toolRuns["fwupdmgr get-devices --json"] = 0
        /\ FlashRuns = 0

C5_Witness == UpdaterEnded /\ choice = <<"Q">> /\ asked["firmware"] = 2

\* C6: a run that ended has exit status 0 exactly when it flashed
\* successfully, was cancelled at the firmware selection or was declined at the
\* flash confirmation, and 1 after a missing tool, a failed fetch, a failed
\* download or no device.
EndedSuccess == success = "true"
EndedCancelled == asked["firmware"] > 0 /\ Lower(choice) = <<"q">>
EndedDeclined == asked["confirm"] > 0 /\ response # <<"y">>
EndedMissingTool == asked["gamepad"] = 0
EndedFetchFailed == asked["beta"] > 0 /\ asked["firmware"] = 0
EndedDownloadFailed == selected_firmware.k = "fw" /\ disk = {} /\ asked["enter"] = 0
EndedNoDevice == asked["enter"] > 0 /\ asked["confirm"] = 0

C6_ExitCodes ==
    UpdaterEnded =>
        /\ u_exit \in {0, 1}
        /\ u_exit = 0 <=> (EndedSuccess \/ EndedCancelled \/ EndedDeclined)
        /\ (EndedMissingTool \/ EndedFetchFailed \/ EndedDownloadFailed \/ EndedNoDevice)
              => u_exit = 1

C6_Witness == UpdaterEnded /\ u_exit = 1 /\ EndedNoDevice /\ asked["keep"] = 1

\* C11: once device discovery, the text fallback or the flash step has invoked
\* its external tool, no failure of that invocation leaves main as an uncaught
\* exception: the run is still going or has ended through sys.exit or main's
\* return.
C11_NoUnhandledFault ==
    (toolRuns["fwupdmgr get-devices --json"] > 0 \/ FlashRuns > 0) =>
        /\ u_exc = ""
        /\ u_pc # "crashed"
        /\ "Traceback (most recent call last)" \notin printed

\* C12: in both tools an interrupt at any point of the run ends the process
\* with exit status 0 and without a stack trace.
C12_InterruptExitsCleanly ==
    /\ s_exc = "KeyboardInterrupt" => (s_exit = 0 /\ s_pc # "crashed")
    /\ "Operation cancelled by user." \in printed => (u_exit = 0 /\ u_pc = "exit")

\* the updater's half of C12
InterruptedUpdaterExitsZero ==
    "Operation cancelled by user." \in printed =>
        (u_exit = 0 /\ u_pc = "exit" /\ u_exc = "")

\* C13: in every run whose download succeeded the retain question has been
\* asked exactly once when the process is gone, whatever happened in the later
\* stages; the file leaves the disk only after a negative answer to it; and a
\* failed deletion is reported and leaves the exit status what the outcome
\* makes it.
C13_CleanupAlwaysAsked ==
    /\ asked["keep"] <= 1
    /\ (firmware_file.k = "name" /\ u_pc \in {"exit", "crashed"}) => asked["keep"] = 1
    /\ (firmware_file.k = "name" /\ firmware_file.name \notin disk) =>
            (asked["keep"] = 1 /\ "Removed" \in printed)
    /\ ("Error removing file" \in printed /\ u_pc = "exit") =>
            /\ firmware_file.name \in disk
            /\ u_exit = 0 <=> (success = "true" \/ EndedDeclined)

\* C14: the body of the loop over the Type values ends with the courtesy
\* delay for every Type value it is left for, whether the fetch gave data, gave
\* nothing or failed after its last retry.
C14_CourtesyDelay ==
    (fin.t >= 0 /\ fin.result \in {"data", "falsy", "none"}) => fin.slept = SleepMs

\* C15: every step of main stays in its stage (a repeated prompt), passes to
\* the next stage of the list, or ends the run (directly, or through the
\* retain question that precedes sys.exit); no prompt but the two selection
\* prompts, no tool and no download is issued twice; and the flashing tool has
\* run only if preflight passed, a non-empty list was fetched, an entry was
\* selected, its download succeeded, the instructions were acknowledged, a
\* device identifier was found and the flash was confirmed.
C15_StepInOrder ==
    \/ Stage(u_pc') = Stage(u_pc)
    \/ Stage(u_pc') = Stage(u_pc) + 1
    \/ u_pc' \in {"exit", "crashed"}
    \/ u_pc' = "cleanup" /\ after' \in {"exit0", "exit1"}

C15_FlashPrerequisites ==
    /\ \A x \in Tools : toolRuns[x] <= 1
    /\ \A p \in {"beta", "enter", "confirm", "keep"} : asked[p] <= 1
    /\ httpGets <= 1
    /\ FlashRuns > 0 =>
          /\ toolRuns["fwupdmgr --version"] = 1 /\ "Available gamepads" \in printed
          /\ selected_gamepad # NoGamepad
          /\ firmware_list.k = "list" /\ firmware_list.l # <<>>
          /\ selected_firmware.k = "fw"
          /\ firmware_file.k = "name" /\ httpGets = 1
          /\ asked["enter"] = 1
          /\ toolRuns["fwupdmgr get-devices --json"] = 1
          /\ device_id.k = "id" /\ device_id.id # <<>>
          /\ asked["confirm"] = 1

C15_StageOrder == [](C15_FlashPrerequisites) /\ [][C15_StepInOrder]_vars

C15_Witness ==
    /\ u_pc = "exit" /\ success = "false" /\ after = "flashed"
    /\ asked["gamepad"] = 1 /\ asked["firmware"] = 1 /\ asked["keep"] = 1

\* C16: once the flashing tool was invoked, the run counts as successful
\* exactly when the tool exited with status 0: then the success report is
\* printed and the process ends with 0; otherwise the failure report is printed
\* and the process ends with 1, whatever was answered at the retain question
\* and whether or not the deletion worked.
C16_ToolOk == flash_result.k = "exited" /\ flash_result.returncode = 0

C16_FlashOutcome ==
    FlashRuns > 0 =>
        /\ u_pc \in {"cleanup", "exit"}
        /\ success = "true" <=> C16_ToolOk
        /\ "Firmware flashed successfully!" \in printed <=> C16_ToolOk
        /\ u_pc = "exit" =>
              /\ asked["keep"] = 1
              /\ u_exit = (IF C16_ToolOk THEN 0 ELSE 1)
              /\ "Update completed successfully!" \in printed <=> C16_ToolOk
              /\ "Update failed." \in printed <=> ~C16_ToolOk

C16_Witness ==
    /\ u_pc = "exit" /\ FlashRuns = 1
    /\ flash_result = [k |-> "exited", returncode |-> 2]
    /\ "Removed" \in printed
    /\ u_exit = 1

\* C17: `seen` holds only pairs of a non-blank trimmed name and an integer;
\* only an item that carries both a fileName and a type adds a pair; an item
\* whose fileName is absent, null or blank, or whose type is absent or null,
\* adds nothing, raises nothing and prints nothing, and the loop goes on with
\* the next item or, behind the last one, with the next Type value.
C17_PairAdmission ==
    /\ \A p \in BagToSet(seen) : p[1] # <<>> /\ Strip(p[1]) = p[1] /\ p[2] \in Int
    /\ last_item.new # {} => last_item.k = "both"
    /\ last_item.k \in {"noname", "notype"} =>
          /\ last_item.new = {}
          /\ s_exc = ""
          /\ \/ s_pc = "items" /\ left >= 1
             \/ s_pc = "loop" /\ fin.t = t - 1 /\ fin.result = "data" /\ fin.t \notin warned

C17_Witness ==
    /\ last_item = [k |-> "notype", new |-> {}]
    /\ s_pc = "items"
    /\ seen # EmptyBag

\* C20: the request that succeeds is the last one for its Type value: it
\* follows directly on the waits of the failed attempts, and neither a request
\* nor a wait is made while its items are processed; the next Type value starts
\* with no attempt counted; the Type values are fetched one after the other.
C20_FirstSuccessEndsRetries ==
    /\ fin.result \in {"data", "falsy"} =>
          (fin.reqs = Len(fin.waits) + 1 /\ fin.reqs <= Retries + 1)
    /\ s_pc = "items" => reqs = Len(waits) + 1
    /\ s_pc = "loop" => (reqs = attempt /\ reqs <= Retries)
    /\ fin.t >= 0 => (fin.t = t - 1 \/ (fin.t = t /\ s_pc = "crashed"))

C20_Witness ==
    /\ fin.result = "data" /\ fin.reqs = 2 /\ fin.waits = <<Backoff(0)>>
    /\ fin.added # {}
    /\ s_pc = "loop" /\ reqs = 0

\* the text of the 1-based index i
IndexText == << <<"1">>, <<"2">>, <<"3">>, <<"4">> >>

\* the input names an entry of the fetched list
InRange(c) == \E i \in 1..Len(firmware_list.l) : i <= Len(IndexText) /\ c = IndexText[i]

\* C18: an input that is no catalog key leaves the run at the model prompt,
\* still running and with no model selected; an input at the firmware prompt
\* that is neither the cancel token nor an in-range index leaves the run at
\* the firmware prompt, still running and with no entry selected; the run is
\* past a prompt only with a valid input as the last one typed there.
C18_Reprompt ==
    /\ (asked["gamepad"] > 0 /\ asked["beta"] = 0) =>
          IF choice \in DOMAIN GAMEPADS
            THEN u_pc = "ask_beta" /\ selected_gamepad = GAMEPADS[choice]
            ELSE /\ u_pc = "select_gamepad" /\ u_exit = -1
                 /\ selected_gamepad = NoGamepad
                 /\ "Invalid selection. Please try again." \in printed
    /\ asked["beta"] > 0 => selected_gamepad \in {GAMEPADS[c] : c \in DOMAIN GAMEPADS}
    /\ (asked["firmware"] > 0 /\ Lower(choice) # <<"q">>) =>
          IF InRange(choice)
            THEN selected_firmware.k = "fw" /\ u_pc # "select_firmware"
            ELSE /\ u_pc = "select_firmware" /\ u_exit = -1
                 /\ selected_firmware.k = "unset"
                 /\ httpGets = 0

C18_Witness ==
    /\ asked["gamepad"] = 3 /\ asked["firmware"] = 3
    /\ selected_firmware.k = "fw"
    /\ u_pc = "download"

\* C19: the entry selected is the i-th of the list as fetched and displayed,
\* for the input i with 1 <= i <= n, and it is the one whose file the download
\* stage names; after 0, -1 or an i > n no entry is selected.
C19_SelectionIndex ==
    /\ firmware_list.k = "list" => firmware_list.l = apiData.list
    /\ selected_firmware.k = "fw" =>
          \E i \in 1..Len(firmware_list.l) :
             choice = IndexText[i] /\ selected_firmware.fw = firmware_list.l[i]
    /\ firmware_file.k = "name" =>
          firmware_file.name = PathName(selected_firmware.fw.filePathName.s)
    /\ (asked["firmware"] > 0
          /\ choice \in {<<"0">>, <<"-", "1">>}
                 \cup {IndexText[i] : i \in (Len(firmware_list.l) + 1)..Len(IndexText)}) =>
          (selected_firmware.k = "unset" /\ u_pc = "select_firmware")

C19_Witness ==
    /\ selected_firmware.k = "fw" /\ choice = <<"2">>
    /\ Len(firmware_list.l) = 2
    /\ selected_firmware.fw = firmware_list.l[2]
    /\ "Invalid selection. Please try again." \in printed
    /\ firmware_file.k = "name"

====
